---- MODULE Spec2Model ----
(***************************************************************************)
(* Model of the games catalogue: the build-time loader (lib/loadGames.ts,  *)
(* lib/types.ts) and the browse-time filter state (app/game-client.tsx).   *)
(*                                                                         *)
(* JSON values are tagged records [t, v].  Strings are sequences of        *)
(* one-character strings so that trim / toLowerCase / slugify are computed *)
(* character by character.  Numbers are fixed-point: v counts halves, so   *)
(* Num(24) is 12 and Num(5) is 2.5 (enough to tell integers from           *)
(* non-integers and to order them).                                        *)
(***************************************************************************)
EXTENDS Integers, Sequences, FiniteSets, TLC

(***************************************************************************)
(* Characters and strings                                                  *)
(***************************************************************************)
Uppers == <<"A","B","C","D","E","F","G","H","I","J","K","L","M",
            "N","O","P","Q","R","S","T","U","V","W","X","Y","Z">>

Lowers == <<"a","b","c","d","e","f","g","h","i","j","k","l","m",
            "n","o","p","q","r","s","t","u","v","w","x","y","z">>

Digits == {"0","1","2","3","4","5","6","7","8","9"}

Range(s) == {s[k] : k \in DOMAIN s}

\* JS whitespace as matched by String.prototype.trim and by \s
Whitespace == {" ", "\t", "\n"}

\* JS \w : [A-Za-z0-9_]
IsWordChar(c) == c \in Range(Uppers) \cup Range(Lowers) \cup Digits \cup {"_"}

ToLowerChar(c) ==
  IF c \in Range(Uppers)
    THEN Lowers[CHOOSE k \in DOMAIN Uppers : Uppers[k] = c]
    ELSE c

\* String.prototype.toLowerCase
ToLowerCase(s) == [k \in DOMAIN s |-> ToLowerChar(s[k])]

RECURSIVE TrimStart(_)
TrimStart(s) ==
  IF s # <<>> /\ Head(s) \in Whitespace THEN TrimStart(Tail(s)) ELSE s

RECURSIVE TrimEnd(_)
TrimEnd(s) ==
  IF s # <<>> /\ s[Len(s)] \in Whitespace
    THEN TrimEnd(SubSeq(s, 1, Len(s) - 1))
    ELSE s

\* a trim that removes one whitespace character per side (/^\s|\s$/g)
TrimOneEach(s) ==
  LET front == IF s # <<>> /\ Head(s) \in Whitespace THEN Tail(s) ELSE s
  IN IF front # <<>> /\ front[Len(front)] \in Whitespace
       THEN SubSeq(front, 1, Len(front) - 1)
       ELSE front

\* String.prototype.trim
Trim(s) == TrimEnd(TrimStart(s))

\* .replace(/[^\w\s-]/g, '')
IsSlugKept(c) == IsWordChar(c) \/ c \in Whitespace \/ c = "-"

StripNonSlug(s) == SelectSeq(s, IsSlugKept)

\* .replace(/[\s_-]+/g, '-')
IsSeparator(c) == c \in Whitespace \/ c \in {"_", "-"}

RECURSIVE DropSeparators(_)
DropSeparators(s) ==
  IF s # <<>> /\ IsSeparator(Head(s)) THEN DropSeparators(Tail(s)) ELSE s

RECURSIVE CollapseSeparators(_)
CollapseSeparators(s) ==
  IF s = <<>> THEN <<>>
  ELSE IF IsSeparator(Head(s))
    THEN <<"-">> \o CollapseSeparators(DropSeparators(s))
    ELSE <<Head(s)>> \o CollapseSeparators(Tail(s))

\* .replace(/^-+|-+$/g, '')
RECURSIVE StripLeadingHyphens(_)
StripLeadingHyphens(s) ==
  IF s # <<>> /\ Head(s) = "-" THEN StripLeadingHyphens(Tail(s)) ELSE s

RECURSIVE StripTrailingHyphens(_)
StripTrailingHyphens(s) ==
  IF s # <<>> /\ s[Len(s)] = "-"
    THEN StripTrailingHyphens(SubSeq(s, 1, Len(s) - 1))
    ELSE s

slugify(str) ==
  StripTrailingHyphens(StripLeadingHyphens(
    CollapseSeparators(StripNonSlug(Trim(ToLowerCase(str))))))

(***************************************************************************)
(* JSON values                                                             *)
(***************************************************************************)
Undefined == [t |-> "undefined", v |-> 0]
Null      == [t |-> "null", v |-> 0]
Bool(b)   == [t |-> "boolean", v |-> b]
Num(h)    == [t |-> "number", v |-> h]
Whole(n)  == Num(2 * n)
Str(s)    == [t |-> "string", v |-> s]
Arr(a)    == [t |-> "array", v |-> a]
Obj(o)    == [t |-> "object", v |-> o]

IsString(x) == x.t = "string"
IsNumber(x) == x.t = "number"

\* property read obj[key]; a missing key and a primitive both give undefined
Get(x, key) ==
  IF x.t = "object" /\ key \in DOMAIN x.v THEN x.v[key] ELSE Undefined

\* ['', 'null', 'null,']
NullishStrings == { <<>>, <<"n","u","l","l">>, <<"n","u","l","l",",">> }

\* the sentinel test without toLowerCase
normaliseNullishStringCaseSensitive(value) ==
  IF ~IsString(value) THEN Null
  ELSE LET trimmed == Trim(value.v)
       IN IF trimmed \in NullishStrings THEN Null ELSE Str(trimmed)

\* returns Null or a Str
normaliseNullishString(value) ==
  IF ~IsString(value) THEN Null
  ELSE LET trimmed == Trim(value.v)
       IN IF ToLowerCase(trimmed) \in NullishStrings THEN Null ELSE Str(trimmed)

RECURSIVE trimStrings(_)
trimStrings(obj) ==
  IF obj.t = "array"
    THEN Arr([k \in DOMAIN obj.v |-> trimStrings(obj.v[k])])
  ELSE IF obj.t = "object"
    THEN Obj([key \in DOMAIN obj.v |->
                IF IsString(obj.v[key]) THEN Str(Trim(obj.v[key].v))
                                        ELSE trimStrings(obj.v[key])])
  ELSE obj


(***************************************************************************)
(* lib/types.ts : GameSchema.  The schema's remaining keys                 *)
(* (recommendedPlayersText, historicalNotes, notes; generalRules,          *)
(* variations, regionalNames, keywords, relatedGames, links) are declared  *)
(* exactly like equipment resp. tags and are handled by the same two       *)
(* parsers.  The parsed output is kept as a record over all modelled keys; *)
(* a key that is absent and a key holding undefined are the same value.    *)
(***************************************************************************)
RequiredStringKeys == {"id", "name"}

OptionalStringKeys ==
  {"description", "category", "equipment", "traditionality", "prepLevel"}

OptionalIntKeys == {"ageMin", "ageMax", "playersMin", "playersMax"}

StringArrayKeys == {"tags", "skillsDeveloped", "regionalPopularity"}

SchemaKeys ==
  RequiredStringKeys \cup OptionalStringKeys \cup OptionalIntKeys
    \cup StringArrayKeys

\* z.string().min(1)
RequiredStringOk(x) == IsString(x) /\ Len(x.v) >= 1

\* z.string().nullable().optional()
OptionalStringOk(x) == x.t \in {"string", "null", "undefined"}

\* Number.isInteger on a fixed-point number
IsInteger(x) == IsNumber(x) /\ x.v % 2 = 0

\* z.number().int().nullable().optional()
OptionalIntOk(x) == IsInteger(x) \/ x.t \in {"null", "undefined"}

\* z.array(z.string()).default([])
StringArrayOk(x) ==
  \/ x.t = "undefined"
  \/ x.t = "array" /\ \A k \in DOMAIN x.v : IsString(x.v[k])

FieldOk(key, x) ==
  IF key \in RequiredStringKeys THEN RequiredStringOk(x)
  ELSE IF key \in OptionalStringKeys THEN OptionalStringOk(x)
  ELSE IF key \in OptionalIntKeys THEN OptionalIntOk(x)
  ELSE StringArrayOk(x)

FieldData(key, x) ==
  IF key \in StringArrayKeys /\ x.t = "undefined" THEN Arr(<<>>) ELSE x

\* GameSchema.safeParse : unknown keys are stripped from data
safeParse(candidate) ==
  [ success |-> \A key \in SchemaKeys : FieldOk(key, Get(candidate, key)),
    data    |-> [key \in SchemaKeys |-> FieldData(key, Get(candidate, key))] ]

(***************************************************************************)
(* lib/loadGames.ts : the body of the for-loop, as pure steps              *)
(***************************************************************************)
\* const name = typeof trimmedGame.name === 'string' ? trimmedGame.name : undefined
NameOf(trimmedGame) ==
  IF IsString(Get(trimmedGame, "name")) THEN Get(trimmedGame, "name")
                                        ELSE Undefined

\* truthiness of a string | undefined
Truthy(x) == IsString(x) /\ x.v # <<>>

\* const id = typeof trimmedGame.id === 'string' ? trimmedGame.id
\*            : name ? slugify(name) : ''
DeriveId(trimmedGame) ==
  IF IsString(Get(trimmedGame, "id")) THEN Get(trimmedGame, "id").v
  ELSE IF Truthy(NameOf(trimmedGame)) THEN slugify(NameOf(trimmedGame).v)
  ELSE <<>>

\* typeof x === 'number' ? x : undefined
NumberOrUndefined(x) == IF IsNumber(x) THEN x ELSE Undefined

\* typeof x === 'string' ? x : null
StringOrNull(x) == IF IsString(x) THEN x ELSE Null

\* if (typeof min === 'number' && typeof max === 'number' && min > max)
IsInverted(min, max) == IsNumber(min) /\ IsNumber(max) /\ min.v > max.v

\* a range guard that never exchanges the bounds
GuardRangeNoSwap(min, max) == <<min, max>>

\* [min, max] = [max, min] when reversed
GuardRange(min, max) ==
  IF IsInverted(min, max) THEN <<max, min>> ELSE <<min, max>>

\* the name as it stands, sentinels included
NameAsGiven(name) == IF IsString(name) THEN name ELSE Str(<<>>)

\* normaliseNullishString(name) || ''
NameOrEmpty(name) ==
  IF normaliseNullishString(name) = Null THEN Str(<<>>)
                                         ELSE normaliseNullishString(name)

\* the overrides written after ...trimmedGame
Overrides(trimmedGame, id) ==
  LET age     == GuardRange(NumberOrUndefined(Get(trimmedGame, "ageMin")),
                            NumberOrUndefined(Get(trimmedGame, "ageMax")))
      players == GuardRange(NumberOrUndefined(Get(trimmedGame, "playersMin")),
                            NumberOrUndefined(Get(trimmedGame, "playersMax")))
  IN [ id          |-> Str(id),
       name        |-> NameOrEmpty(NameOf(trimmedGame)),
       description |-> normaliseNullishString(
                         StringOrNull(Get(trimmedGame, "description"))),
       category    |-> normaliseNullishString(
                         StringOrNull(Get(trimmedGame, "category"))),
       prepLevel   |-> normaliseNullishString(
                         StringOrNull(Get(trimmedGame, "prepLevel"))),
       ageMin      |-> age[1],
       ageMax      |-> age[2],
       playersMin  |-> players[1],
       playersMax  |-> players[2] ]

\* const gameToNormalise = { ...trimmedGame, id, name: ..., ... }
gameToNormalise(trimmedGame, id) ==
  LET over == Overrides(trimmedGame, id)
  IN Obj([key \in DOMAIN trimmedGame.v \cup DOMAIN over |->
            IF key \in DOMAIN over THEN over[key] ELSE trimmedGame.v[key]])

(***************************************************************************)
(* Inputs: the parsed contents of public/games.json                        *)
(***************************************************************************)
\* longest input sequence built from IdentityRecords
MaxRecords == 3

sX        == <<"x">>
sY        == <<"y">>
sUpperX   == <<"X">>
sPaddedX  == <<" ", "X", " ">>
sUpperY   == <<"Y">>
sG        == <<"g">>
sUpperG   == <<"G">>
sNull     == <<"n","u","l","l">>
sNullCap  == <<"N","u","l","l">>
sNullComma == <<"n","u","l","l",",">>
sNullLoud == <<" ","N","U","L","L",","," ">>
sNullable == <<"n","u","l","l","a","b","l","e">>
sBlank    == <<" ">>
sParty    == <<"P","a","r","t","y">>
sPartyPad == <<" "," ","P","a","r","t","y","\t">>
sTwelve   == <<"1","2">>
sTagGame  == <<"T","a","g"," ","G","a","m","e">>
sTagSlug  == <<"t","a","g","-","g","a","m","e">>
sTagPad   == <<" ","T","a","g"," ">>
sHide     == <<" "," ","H","i","d","e","-","a","n","d","-","S","e","e","k"," ">>
sDuck     == <<"D","u","c","k",","," ","D","u","c","k","!">>
sUnder    == <<"_","_","a"," ","b","_","_">>
sBangs    == <<"!","!","!">>
sA        == <<"a">>
sB        == <<"b">>
sPadA     == <<" ","a"," ">>
sPadB     == <<"\n","b"," "," ">>

\* records that collide on their id, fail validation, or are not objects
IdentityRecords ==
  { Obj([id |-> Str(sX), name |-> Str(sUpperX)]),
    Obj([name |-> Str(sPaddedX)]),
    Obj([id |-> Str(sX)]),
    Obj([id |-> Str(sX), name |-> Str(sUpperY), ageMin |-> Num(5)]),
    Obj([id |-> Str(<<>>), name |-> Str(sUpperX)]),
    Obj([name |-> Str(sUpperY)]),
    Obj([description |-> Str(sParty), category |-> Str(sParty)]),
    Obj([id |-> Str(sY), name |-> Str(sUpperY), description |-> Str(sPartyPad),
         ageMin |-> Whole(12), ageMax |-> Whole(8)]),
    Null,
    Whole(5),
    Str(sX),
    Arr(<<Obj([id |-> Str(sX), name |-> Str(sUpperX)])>>) }

BaseFields == [id |-> Str(sG), name |-> Str(sUpperG)]

StringFieldValues ==
  { Undefined, Null, Whole(3), Str(<<>>), Str(sBlank), Str(sNull),
    Str(sNullCap), Str(sNullComma), Str(sNullLoud), Str(sNullable),
    Str(sParty), Str(sPartyPad) }

StringFieldRecords ==
  { Obj((key :> val) @@ BaseFields) :
      key \in OptionalStringKeys, val \in StringFieldValues }

RangeValues ==
  { Undefined, Null, Whole(8), Whole(12), Num(5), Str(sTwelve), Bool(TRUE) }

RangePairs == RangeValues \X RangeValues

PlainPairs ==
  { <<Undefined, Undefined>>, <<Whole(2), Whole(4)>>, <<Whole(4), Whole(2)>> }

RangeRecords ==
  { Obj([ageMin |-> age[1], ageMax |-> age[2],
         playersMin |-> players[1], playersMax |-> players[2]] @@ BaseFields) :
      age \in RangePairs, players \in PlainPairs }
  \cup
  { Obj([ageMin |-> age[1], ageMax |-> age[2],
         playersMin |-> players[1], playersMax |-> players[2]] @@ BaseFields) :
      age \in PlainPairs, players \in RangePairs }

ArrayFieldValues ==
  { Undefined, Null, Str(sA), Arr(<<>>), Arr(<<Str(sA), Str(sB)>>),
    Arr(<<Str(sPadA)>>), Arr(<<Str(sA), Str(sPadB)>>), Arr(<<Whole(5)>>),
    Arr(<<Arr(<<Str(sPadA)>>)>>), Arr(<<Obj([note |-> Str(sPadA)])>>),
    Obj([note |-> Str(sPadA), more |-> Arr(<<Str(sPadB)>>)]) }

ArrayFieldRecords ==
  { Obj((key :> val) @@ BaseFields) :
      key \in StringArrayKeys, val \in ArrayFieldValues }

IdValues ==
  { Undefined, Null, Whole(7), Str(<<>>), Str(sBlank), Str(sTagSlug),
    Str(sTagPad) }

NameValues ==
  { Undefined, Null, Whole(7), Str(<<>>), Str(sTagGame), Str(sHide),
    Str(sDuck), Str(sUnder), Str(sBangs), Str(sNull), Str(sNullLoud) }

IdNameRecords ==
  { Obj([id |-> idv, name |-> namev]) : idv \in IdValues, namev \in NameValues }

FieldRecords ==
  StringFieldRecords \cup RangeRecords \cup ArrayFieldRecords \cup IdNameRecords

SeqsUpTo(S, n) == UNION { [1..k -> S] : k \in 0..n }

\* records that carry facet values: two accepted ones that share values, one
\* whose id is taken already, and one with neither id nor name
FacetRecords ==
  { Obj([id |-> Str(sG), name |-> Str(sUpperG), category |-> Str(sParty),
         tags |-> Arr(<<Str(sB), Str(sA), Str(sB), Str(<<>>)>>),
         prepLevel |-> Str(sUnder)]),
    Obj([name |-> Str(sUpperY), category |-> Str(sPartyPad),
         tags |-> Arr(<<Str(sUpperX), Str(sA)>>),
         skillsDeveloped |-> Arr(<<Str(sBangs), Str(sTwelve)>>)]),
    Obj([id |-> Str(sG), name |-> Str(sUpperX), category |-> Str(sX),
         tags |-> Arr(<<Str(sY)>>), regionalPopularity |-> Arr(<<Str(sY)>>)]),
    Obj([description |-> Str(sParty), category |-> Str(sTagGame),
         tags |-> Arr(<<Str(sTagGame)>>)]) }

InputSequences ==
  SeqsUpTo(IdentityRecords, MaxRecords) \cup { <<r>> : r \in FieldRecords }
    \cup SeqsUpTo(FacetRecords, MaxRecords)

(***************************************************************************)
(* lib/loadGames.ts : loadGames as a state machine                         *)
(***************************************************************************)
VARIABLES
  rawData,          \* the parsed input array
  cursor,           \* position of the for-of iterator (next record, 1-based)
  seenIds,          \* Set<string>
  normalisedGames,  \* Game[]
  pc,               \* "loop" | "done" | "threw"
  assignedIds,      \* history: the id computed at line 66 for each record read
  sourceIndex,      \* history: for each catalogue entry, its position in rawData
  filters,          \* useState<FiltersState>
  debouncedQuery,   \* useDebounce(filters.query, 300)
  searchParams,     \* useSearchParams(): the address bar's query, as pairs
  pendingReplace,   \* router.replace calls not yet reflected in searchParams
  events            \* user inputs and navigations so far

loaderVars ==
  <<rawData, cursor, seenIds, normalisedGames, pc, assignedIds, sourceIndex>>

browseVars ==
  <<filters, debouncedQuery, searchParams, pendingReplace, events>>

vars == <<loaderVars, browseVars>>

rawGame == rawData[cursor]

trimmedGame == trimStrings(rawGame)

id == DeriveId(trimmedGame)

validationResult == safeParse(gameToNormalise(trimmedGame, id))

InLoop == pc = "loop" /\ cursor <= Len(rawData)

\* a guard that forgets the seenIds lookup
ShouldSkipIgnoringSeen(anId, seen) == anId = <<>>

\* if (!id || seenIds.has(id)) continue
ShouldSkip(anId, seen) == anId = <<>> \/ anId \in seen

\* the loop run to its end over data that holds no null: the values the
\* loader's variables have when loadGames returns
RECURSIVE LoadFrom(_, _, _)
LoadFrom(data, pos, st) ==
  IF pos > Len(data) THEN st
  ELSE LET trimmed == trimStrings(data[pos])
           anId    == DeriveId(trimmed)
           result  == safeParse(gameToNormalise(trimmed, anId))
           read    == [st EXCEPT !.assignedIds = Append(@, anId)]
       IN IF ShouldSkip(anId, st.seenIds)
            THEN LoadFrom(data, pos + 1, read)
          ELSE IF result.success
            THEN LoadFrom(data, pos + 1,
                   [read EXCEPT !.seenIds = @ \cup {anId},
                                !.normalisedGames = Append(@, result.data),
                                !.sourceIndex = Append(@, pos)])
          ELSE LoadFrom(data, pos + 1, [read EXCEPT !.seenIds = @ \cup {anId}])

LoadAll(data) ==
  LoadFrom(data, 1, [seenIds |-> {}, normalisedGames |-> <<>>,
                     assignedIds |-> <<>>, sourceIndex |-> <<>>])

(***************************************************************************)
(* app/game-client.tsx : filter state, URL codec, filtering, pagination    *)
(***************************************************************************)
facetKeys ==
  <<"category", "tags", "traditionality", "prepLevel", "skillsDeveloped",
    "regionalPopularity">>

FacetKeySet == Range(facetKeys)

DEFAULT_PAGE == 1

perPage == 12

createDefaultFilters ==
  [ query |-> <<>>, page |-> DEFAULT_PAGE,
    category |-> <<>>, tags |-> <<>>, traditionality |-> <<>>,
    prepLevel |-> <<>>, skillsDeveloped |-> <<>>, regionalPopularity |-> <<>> ]

\* ---- URLSearchParams: a sequence of <<key, value>> pairs; two query
\* strings are equal exactly when their pair sequences are (toString
\* percent-encodes each key and value injectively and keeps the order)
ParamValues(params, key) ==
  LET HasKey(pair) == pair[1] = key
      hits == SelectSeq(params, HasKey)
  IN [k \in DOMAIN hits |-> hits[k][2]]

\* params.get(key): the first value, or null
ParamGet(params, key) ==
  IF ParamValues(params, key) = <<>> THEN Null
                                     ELSE Str(ParamValues(params, key)[1])

\* params.set(key, value) on params that do not hold key yet, params.append
ParamAppend(params, key, value) == Append(params, <<key, value>>)

DigitChars == <<"0","1","2","3","4","5","6","7","8","9">>

DigitValue(c) == (CHOOSE k \in DOMAIN DigitChars : DigitChars[k] = c) - 1

\* String(n) for n >= 0
RECURSIVE NumberToString(_)
NumberToString(n) ==
  IF n < 10 THEN <<DigitChars[n + 1]>>
            ELSE NumberToString(n \div 10) \o <<DigitChars[(n % 10) + 1]>>

RECURSIVE LeadingDigits(_, _)
LeadingDigits(s, acc) ==
  IF s # <<>> /\ Head(s) \in Digits
    THEN LeadingDigits(Tail(s), 10 * acc + DigitValue(Head(s)))
    ELSE acc

\* Number.parseInt(value, 10): leading whitespace, an optional sign, then
\* the longest run of digits; NaN when there is no digit
ParseInt(value) ==
  LET body     == TrimStart(value)
      negative == body # <<>> /\ Head(body) = "-"
      signed   == body # <<>> /\ Head(body) \in {"-", "+"}
      digits   == IF signed THEN Tail(body) ELSE body
  IN IF digits = <<>> \/ Head(digits) \notin Digits
       THEN [nan |-> TRUE, n |-> 0]
       ELSE [nan |-> FALSE,
             n   |-> IF negative THEN 0 - LeadingDigits(digits, 0)
                                 ELSE LeadingDigits(digits, 0)]

\* without the test against DEFAULT_PAGE
parsePageParamUnchecked(value) ==
  IF value = Null \/ value.v = <<>> THEN DEFAULT_PAGE
  ELSE IF ParseInt(value.v).nan THEN DEFAULT_PAGE ELSE ParseInt(value.v).n

parsePageParam(value) ==
  IF value = Null \/ value.v = <<>> THEN DEFAULT_PAGE
  ELSE IF ParseInt(value.v).nan \/ ParseInt(value.v).n < DEFAULT_PAGE
         THEN DEFAULT_PAGE
         ELSE ParseInt(value.v).n

\* a.localeCompare(b) <= 0.  The facet values of the model are written in
\* lower-case letters, digits and blanks, where the collation order is the
\* lexicographic order over CollationOrder.
CollationOrder ==
  <<" ", "\t", "\n", "_", "-", ",", "!">> \o DigitChars \o Lowers \o Uppers

CharRank(c) == CHOOSE k \in DOMAIN CollationOrder : CollationOrder[k] = c

RECURSIVE LocaleLeq(_, _)
LocaleLeq(a, b) ==
  IF a = <<>> THEN TRUE
  ELSE IF b = <<>> THEN FALSE
  ELSE IF Head(a) = Head(b) THEN LocaleLeq(Tail(a), Tail(b))
  ELSE CharRank(Head(a)) < CharRank(Head(b))

RECURSIVE InsertSorted(_, _)
InsertSorted(sorted, value) ==
  IF sorted = <<>> THEN <<value>>
  ELSE IF LocaleLeq(Head(sorted), value)
         THEN <<Head(sorted)>> \o InsertSorted(Tail(sorted), value)
         ELSE <<value>> \o sorted

\* the element of a one-element set: a name bound by \in holds a value, so
\* a stage written TheOnly({ F(x) : x \in {e} }) computes e once
TheOnly(S) == CHOOSE x \in S : TRUE

\* values.sort((a, b) => a.localeCompare(b))
RECURSIVE SortStrings(_)
SortStrings(values) ==
  IF values = <<>> THEN <<>>
  ELSE TheOnly({ InsertSorted(sorted, values[Len(values)]) :
                   sorted \in {SortStrings(SubSeq(values, 1, Len(values) - 1))} })

\* repetitions are kept
KeepRepeated(values) == values

\* Array.from(new Set(values)): first occurrences, in order
RECURSIVE Dedupe(_)
Dedupe(values) ==
  IF values = <<>> THEN <<>>
  ELSE TheOnly({ IF values[Len(values)] \in Range(front)
                   THEN front ELSE Append(front, values[Len(values)]) :
                   front \in {Dedupe(SubSeq(values, 1, Len(values) - 1))} })

\* .map(value => value.trim()).filter(value => value.length > 0)
TrimmedNonEmpty(values) ==
  LET NonEmpty(value) == Len(value) > 0
  IN SelectSeq([k \in DOMAIN values |-> Trim(values[k])], NonEmpty)

FacetFromParams(params, key) ==
  TheOnly({ IF Len(values) > 0
              THEN TheOnly({ SortStrings(unique) : unique \in {Dedupe(values)} })
              ELSE <<>> :
              values \in {TrimmedNonEmpty(ParamValues(params, key))} })

buildFiltersFromParams(params) ==
  [ query |-> IF ParamGet(params, "q") = Null THEN <<>>
                                               ELSE ParamGet(params, "q").v,
    page  |-> parsePageParam(ParamGet(params, "page")),
    category           |-> FacetFromParams(params, "category"),
    tags               |-> FacetFromParams(params, "tags"),
    traditionality     |-> FacetFromParams(params, "traditionality"),
    prepLevel          |-> FacetFromParams(params, "prepLevel"),
    skillsDeveloped    |-> FacetFromParams(params, "skillsDeveloped"),
    regionalPopularity |-> FacetFromParams(params, "regionalPopularity") ]

arraysEqual(a, b) ==
  IF Len(a) # Len(b) THEN FALSE ELSE \A k \in DOMAIN a : a[k] = b[k]

areFiltersEqual(a, b) ==
  IF a.query # b.query \/ a.page # b.page THEN FALSE
  ELSE \A key \in FacetKeySet : arraysEqual(a[key], b[key])

\* ---- the props of GameClient
allGames == normalisedGames

\* app/page.tsx getUniqueValues: the distinct non-empty strings of a key
UniqueValueSet(key) ==
  UNION { IF IsString(game[key]) /\ game[key].v # <<>> THEN {game[key].v}
          ELSE IF game[key].t = "array"
            THEN { game[key].v[k].v : k \in
                     { j \in DOMAIN game[key].v :
                         IsString(game[key].v[j]) /\ game[key].v[j].v # <<>> } }
          ELSE {} : game \in Range(allGames) }

\* Array.prototype.sort() without a comparator orders strings by UTF-16 code
\* units; the characters of the model in that order
CodeUnitOrder ==
  <<"\t", "\n", " ", "!", ",", "-">> \o DigitChars \o Uppers \o <<"_">> \o Lowers

CodeUnitRank(c) == CHOOSE k \in DOMAIN CodeUnitOrder : CodeUnitOrder[k] = c

RECURSIVE CodeUnitLeq(_, _)
CodeUnitLeq(a, b) ==
  IF a = <<>> THEN TRUE
  ELSE IF b = <<>> THEN FALSE
  ELSE IF Head(a) = Head(b) THEN CodeUnitLeq(Tail(a), Tail(b))
  ELSE CodeUnitRank(Head(a)) < CodeUnitRank(Head(b))

RECURSIVE InsertByCodeUnit(_, _)
InsertByCodeUnit(sorted, value) ==
  IF sorted = <<>> THEN <<value>>
  ELSE IF CodeUnitLeq(Head(sorted), value)
         THEN <<Head(sorted)>> \o InsertByCodeUnit(Tail(sorted), value)
         ELSE <<value>> \o sorted

\* Array.from(values).sort()
RECURSIVE SortByCodeUnit(_)
SortByCodeUnit(values) ==
  IF values = <<>> THEN <<>>
  ELSE TheOnly({ InsertByCodeUnit(sorted, values[Len(values)]) :
                   sorted \in {SortByCodeUnit(SubSeq(values, 1, Len(values) - 1))} })

\* the test without its truthiness half: typeof v === 'string'
IsAnyString(x) == IsString(x)

\* typeof v === 'string' && v
IsTruthyString(x) == IsString(x) /\ x.v # <<>>

\* the strings one game hands to values.add, in the order of the calls
ValuesAdded(game, key) ==
  LET value == game[key]
  IN IF IsTruthyString(value) THEN <<value.v>>
     ELSE IF value.t = "array"
       THEN LET kept == SelectSeq(value.v, IsTruthyString)
            IN [k \in DOMAIN kept |-> kept[k].v]
     ELSE <<>>

RECURSIVE AllValuesAdded(_, _)
AllValuesAdded(games, key) ==
  IF games = <<>> THEN <<>>
  ELSE ValuesAdded(Head(games), key) \o AllValuesAdded(Tail(games), key)

\* app/page.tsx getUniqueValues: a Set filled game by game, then sorted
getUniqueValues(games, key) ==
  SortByCodeUnit(Dedupe(AllValuesAdded(games, key)))

\* the facets object of HomePage
facets == [key \in FacetKeySet |-> getUniqueValues(normalisedGames, key)]

\* ---- fuse.search: the fuzzy matcher is a library.  It is modelled as a
\* case-insensitive substring match on the name, ranked with the shorter
\* (closer) names first and ties in catalogue order.  An empty pattern
\* matches no record (Fuse's searcher has nothing to look for).
Contains(text, pattern) ==
  \E k \in 0..(Len(text) - Len(pattern)) :
    SubSeq(text, k + 1, k + Len(pattern)) = pattern

FuseSearch(pattern) ==
  LET Hit(game) == /\ pattern # <<>>
                   /\ Contains(ToLowerCase(game.name.v), ToLowerCase(pattern))
      hits == SelectSeq(allGames, Hit)
      Close(game) == Len(game.name.v) <= Len(pattern)
      Far(game) == ~Close(game)
  IN SelectSeq(hits, Close) \o SelectSeq(hits, Far)

\* !game.category : null, undefined and '' are falsy
Falsy(x) == ~IsString(x) \/ x.v = <<>>

\* every in place of some
EveryIncluded(values, selected) ==
  \A k \in DOMAIN values.v : values.v[k].v \in Range(selected)

\* (game.tags || []).some(tag => selected.includes(tag))
SomeIncluded(values, selected) ==
  \E k \in DOMAIN values.v : values.v[k].v \in Range(selected)

\* the callback of searchResults.filter: each if returns false
KeepsGame(game, f) ==
  /\ ~( Len(f.category) > 0
        /\ (Falsy(game.category) \/ game.category.v \notin Range(f.category)) )
  /\ ~( Len(f.tags) > 0 /\ ~SomeIncluded(game.tags, f.tags) )
  /\ ~( Len(f.traditionality) > 0
        /\ ( Falsy(game.traditionality)
             \/ game.traditionality.v \notin Range(f.traditionality) ) )
  /\ ~( Len(f.prepLevel) > 0
        /\ (Falsy(game.prepLevel) \/ game.prepLevel.v \notin Range(f.prepLevel)) )
  /\ ~( Len(f.skillsDeveloped) > 0
        /\ ~SomeIncluded(game.skillsDeveloped, f.skillsDeveloped) )
  /\ ~( Len(f.regionalPopularity) > 0
        /\ ~SomeIncluded(game.regionalPopularity, f.regionalPopularity) )

\* the index is asked whatever the query is
searchResultsAlwaysFuse(debounced) == FuseSearch(Trim(debounced))

\* const searchResults = trimmedQuery ? fuse.search(trimmedQuery)... : allGames
searchResults(debounced) ==
  IF Trim(debounced) # <<>> THEN FuseSearch(Trim(debounced)) ELSE allGames

FilterGames(f, debounced) ==
  LET Keeps(game) == KeepsGame(game, f)
  IN SelectSeq(searchResults(debounced), Keeps)

Min(a, b) == IF a <= b THEN a ELSE b

Max(a, b) == IF a >= b THEN a ELSE b

\* Math.floor in place of Math.ceil
TotalPagesFloor(f, debounced) == Len(FilterGames(f, debounced)) \div perPage

\* Math.ceil(filteredGames.length / perPage)
TotalPagesOf(f, debounced) ==
  (Len(FilterGames(f, debounced)) + perPage - 1) \div perPage

\* Math.min(filters.page, totalPages || 1)
CurrentPageOf(f, debounced) ==
  Min(f.page, IF TotalPagesOf(f, debounced) = 0 THEN 1
                                                ELSE TotalPagesOf(f, debounced))

\* the values of the current render
filteredGames == FilterGames(filters, debouncedQuery)

totalPages == TotalPagesOf(filters, debouncedQuery)

currentPage == CurrentPageOf(filters, debouncedQuery)

\* Array.prototype.slice(start, end): a negative index counts from the end
SliceIndex(len, k) == IF k < 0 THEN Max(len + k, 0) ELSE Min(k, len)

Slice(items, start, end) ==
  SubSeq(items, SliceIndex(Len(items), start) + 1, SliceIndex(Len(items), end))

\* filteredGames.slice((currentPage - 1) * perPage, currentPage * perPage)
paginatedGames ==
  Slice(filteredGames, (currentPage - 1) * perPage, currentPage * perPage)

RECURSIVE AppendFacets(_, _, _)
AppendFacets(params, f, keys) ==
  IF keys = <<>> THEN params
  ELSE AppendFacets(
         params \o [k \in DOMAIN f[Head(keys)] |-> <<Head(keys), f[Head(keys)][k]>>],
         f, Tail(keys))

\* the page is never written
EncodedSearchWithoutPage(f, page) ==
  AppendFacets(IF Trim(f.query) # <<>> THEN ParamAppend(<<>>, "q", Trim(f.query))
                                       ELSE <<>>,
               f, facetKeys)

\* the query string the URL-writing effect builds (lines 361-373)
EncodedSearch(f, page) ==
  LET withQuery == IF Trim(f.query) # <<>>
                     THEN ParamAppend(<<>>, "q", Trim(f.query))
                     ELSE <<>>
      withFacets == AppendFacets(withQuery, f, facetKeys)
  IN IF page > 1 THEN ParamAppend(withFacets, "page", NumberToString(page))
                 ELSE withFacets

\* router.replace is called without the comparison
UrlWriteAlways(f, dq, params, pending) ==
  Append(pending, EncodedSearch(f, CurrentPageOf(f, dq)))

\* useEffect at lines 360-382, run in a render with filters f, debounced
\* query dq and address-bar query params: the router.replace calls
\* outstanding after it
UrlWriteEffect(f, dq, params, pending) ==
  IF EncodedSearch(f, CurrentPageOf(f, dq)) = params
    THEN pending
    ELSE Append(pending, EncodedSearch(f, CurrentPageOf(f, dq)))

\* useEffect at lines 384-389: the filters after it
UrlReadEffect(f, params) ==
  IF areFiltersEqual(f, buildFiltersFromParams(params))
    THEN f
    ELSE buildFiltersFromParams(params)

\* the browse-time state while the module is still loading
BrowseIdle ==
  /\ filters = createDefaultFilters
  /\ debouncedQuery = <<>>
  /\ searchParams = <<>>
  /\ pendingReplace = <<>>
  /\ events = 0

LoaderInit ==
  /\ rawData \in InputSequences
  /\ cursor = 1
  /\ seenIds = {}
  /\ normalisedGames = <<>>
  /\ pc = "loop"
  /\ assignedIds = <<>>
  /\ sourceIndex = <<>>
  /\ BrowseIdle

\* line 63: reading .name of null raises a TypeError that nothing catches
ThrowOnNull ==
  /\ InLoop
  /\ trimmedGame = Null
  /\ pc' = "threw"
  /\ UNCHANGED <<rawData, cursor, seenIds, normalisedGames, assignedIds,
                 sourceIndex>>
  /\ UNCHANGED browseVars

\* line 74: if (!id || seenIds.has(id)) continue
SkipRecord ==
  /\ InLoop
  /\ trimmedGame # Null
  /\ ShouldSkip(id, seenIds)
  /\ cursor' = cursor + 1
  /\ assignedIds' = Append(assignedIds, id)
  /\ UNCHANGED <<rawData, seenIds, normalisedGames, pc, sourceIndex>>
  /\ UNCHANGED browseVars

\* lines 75-128 with validationResult.success
AcceptRecord ==
  /\ InLoop
  /\ trimmedGame # Null
  /\ ~ShouldSkip(id, seenIds)
  /\ validationResult.success
  /\ seenIds' = seenIds \cup {id}
  /\ normalisedGames' = Append(normalisedGames, validationResult.data)
  /\ sourceIndex' = Append(sourceIndex, cursor)
  /\ cursor' = cursor + 1
  /\ assignedIds' = Append(assignedIds, id)
  /\ UNCHANGED <<rawData, pc>>
  /\ UNCHANGED browseVars

\* lines 75-128 without validationResult.success
RejectRecord ==
  /\ InLoop
  /\ trimmedGame # Null
  /\ ~ShouldSkip(id, seenIds)
  /\ ~validationResult.success
  /\ seenIds' = seenIds \cup {id}
  /\ cursor' = cursor + 1
  /\ assignedIds' = Append(assignedIds, id)
  /\ UNCHANGED <<rawData, normalisedGames, pc, sourceIndex>>
  /\ UNCHANGED browseVars

\* lines 132-135
ReturnResult ==
  /\ pc = "loop"
  /\ cursor > Len(rawData)
  /\ pc' = "done"
  /\ UNCHANGED <<rawData, cursor, seenIds, normalisedGames, assignedIds,
                 sourceIndex>>
  /\ UNCHANGED browseVars

Init == LoaderInit

Next ==
  \/ ThrowOnNull
  \/ SkipRecord
  \/ AcceptRecord
  \/ RejectRecord
  \/ ReturnResult

Spec == Init /\ [][Next]_vars

(***************************************************************************)
(* app/data/quality/page.tsx : buildQualityReport                          *)
(***************************************************************************)
\* the schema's keys in declaration order, the order of the zod issues
SchemaKeyOrder ==
  <<"id", "name", "description", "category", "ageMin", "ageMax", "playersMin",
    "playersMax", "equipment", "skillsDeveloped", "tags", "regionalPopularity",
    "traditionality", "prepLevel">>

\* !rawGame || typeof rawGame !== 'object' || Array.isArray(rawGame)
IsNotRecord(raw) == raw.t # "object"

\* explicitIdValue && explicitIdValue.length > 0 ? explicitIdValue
\*   : rawNameValue ? slugify(rawNameValue) : ''
ReportDerivedId(trimmed) ==
  IF Truthy(Get(trimmed, "id")) THEN Get(trimmed, "id").v
  ELSE IF Truthy(NameOf(trimmed)) THEN slugify(NameOf(trimmed).v)
  ELSE <<>>

\* no warning is pushed for a range
RangeWarningsNone(trimmed) == <<>>

\* the warnings pushed while the two ranges are put in order; a message is
\* its fixed text followed by the numbers it quotes
RangeWarnings(trimmed) ==
  LET ageMin     == NumberOrUndefined(Get(trimmed, "ageMin"))
      ageMax     == NumberOrUndefined(Get(trimmed, "ageMax"))
      playersMin == NumberOrUndefined(Get(trimmed, "playersMin"))
      playersMax == NumberOrUndefined(Get(trimmed, "playersMax"))
  IN (IF IsInverted(ageMin, ageMax)
        THEN << <<"Age range inverted; values swapped", ageMin.v, ageMax.v>> >>
        ELSE <<>>)
     \o (IF IsInverted(playersMin, playersMax)
           THEN << <<"Player range inverted; values swapped",
                     playersMin.v, playersMax.v>> >>
           ELSE <<>>)

\* issue.message: the text given to min(1, ...) for a name that is a string,
\* the library's own wording for every other failure
IssueMessage(key, x) ==
  IF key = "name" /\ IsString(x) THEN "Name is required" ELSE "zod default message"

\* validation.error.issues.map(...): `${path}: ${issue.message}` for each key
\* that fails
ValidationIssues(candidate) ==
  LET Fails(key) == ~FieldOk(key, Get(candidate, key))
      failing == SelectSeq(SchemaKeyOrder, Fails)
  IN [k \in DOMAIN failing |->
        <<failing[k], IssueMessage(failing[k], Get(candidate, failing[k]))>>]

\* the entry of an element that is no object
UnparsedEntry(index) ==
  [ index |-> index, derivedId |-> <<>>, issues |-> << <<"Entry is not a valid object">> >>,
    warnings |-> <<>>, validationIssues |-> <<>>, included |-> FALSE ]

\* the body of rawGames.forEach for an object, with the seenIds and
\* firstOccurrence of the entries before it
AnalysedEntry(raw, index, seen, first) ==
  LET trimmed   == trimStrings(raw)
      derivedId == ReportDerivedId(trimmed)
      problems  == ValidationIssues(gameToNormalise(trimmed, derivedId))
      repeated  == derivedId # <<>> /\ derivedId \in seen
  IN [ index     |-> index,
       derivedId |-> derivedId,
       issues    |->
         (IF derivedId = <<>> THEN << <<"Unable to derive a stable id">> >>
                              ELSE <<>>)
         \o (IF repeated
               THEN << <<"Duplicate id; first seen at entry #", first[derivedId] + 1>> >>
               ELSE <<>>),
       warnings  |-> RangeWarnings(trimmed),
       validationIssues |-> problems,
       included  |-> problems = <<>> /\ derivedId # <<>> /\ ~repeated ]

\* rawGames.forEach((rawGame, index) => ...), index counting from 0
RECURSIVE AnalyseFrom(_, _, _)
AnalyseFrom(data, pos, st) ==
  IF pos > Len(data) THEN st.analysed
  ELSE IF IsNotRecord(data[pos])
    THEN AnalyseFrom(data, pos + 1,
           [st EXCEPT !.analysed = Append(@, UnparsedEntry(pos - 1))])
  ELSE TheOnly({
         AnalyseFrom(data, pos + 1,
           [ analysed |-> Append(st.analysed, entry),
             seenIds  |-> IF entry.derivedId = <<>> THEN st.seenIds
                          ELSE st.seenIds \cup {entry.derivedId},
             firstOccurrence |->
               IF entry.derivedId = <<>> \/ entry.derivedId \in st.seenIds
                 THEN st.firstOccurrence
                 ELSE [anId \in DOMAIN st.firstOccurrence \cup {entry.derivedId} |->
                         IF anId = entry.derivedId THEN pos - 1
                         ELSE st.firstOccurrence[anId]] ]) :
           entry \in {AnalysedEntry(data[pos], pos - 1, st.seenIds,
                                    st.firstOccurrence)} })

\* the entries as the forEach leaves them
Analysed(data) ==
  AnalyseFrom(data, 1, [analysed |-> <<>>, seenIds |-> {},
                        firstOccurrence |-> <<>>])

\* idBuckets: the keys in insertion order, and the records of a key
BucketIds(entries) ==
  LET HasId(entry) == entry.derivedId # <<>>
      withId == SelectSeq(entries, HasId)
  IN Dedupe([k \in DOMAIN withId |-> withId[k].derivedId])

Bucket(entries, anId) ==
  LET Same(entry) == entry.derivedId = anId
  IN SelectSeq(entries, Same)

\* the indices are left counting from 0
GroupOfZeroBased(entries, anId) ==
  [ id      |-> anId,
    count   |-> Len(Bucket(entries, anId)),
    indices |-> [k \in DOMAIN Bucket(entries, anId) |->
                   Bucket(entries, anId)[k].index] ]

\* duplicateGroups.push({ id, count, indices }) for the buckets of length > 1
GroupOf(entries, anId) ==
  [ id      |-> anId,
    count   |-> Len(Bucket(entries, anId)),
    indices |-> [k \in DOMAIN Bucket(entries, anId) |->
                   Bucket(entries, anId)[k].index + 1] ]

UnsortedGroups(entries) ==
  LET Shared(anId) == Len(Bucket(entries, anId)) > 1
      shared == SelectSeq(BucketIds(entries), Shared)
  IN [k \in DOMAIN shared |-> GroupOf(entries, shared[k])]

\* Math.min(...indices)
MinOf(numbers) ==
  CHOOSE n \in Range(numbers) : \A other \in Range(numbers) : n <= other

\* the comparator of duplicateGroups.sort is not positive
GroupLeq(a, b) ==
  IF b.count = a.count THEN MinOf(a.indices) - MinOf(b.indices) <= 0
                       ELSE b.count - a.count <= 0

\* a stable sort by insertion
RECURSIVE SortGroups(_)
SortGroups(groups) ==
  IF groups = <<>> THEN <<>>
  ELSE TheOnly({
         LET last     == groups[Len(groups)]
             Before(g) == GroupLeq(g, last)
             After(g)  == ~GroupLeq(g, last)
         IN SelectSeq(sorted, Before) \o <<last>> \o SelectSeq(sorted, After) :
           sorted \in {SortGroups(SubSeq(groups, 1, Len(groups) - 1))} })

\* the entry after the pass over idBuckets: the first record of a shared id
\* gets one more warning
WithSharedWarning(entries, k) ==
  LET bucket == Bucket(entries, entries[k].derivedId)
  IN IF entries[k].derivedId # <<>> /\ Len(bucket) > 1
          /\ bucket[1].index = entries[k].index
       THEN [entries[k] EXCEPT !.warnings =
               Append(@, <<"ID shared with other records", Len(bucket) - 1>>)]
       ELSE entries[k]

\* only a record with an issue counts as flagged
IsFlaggedByIssuesOnly(record) == Len(record.issues) > 0

\* the callback of analysed.filter at lines 246-251
IsFlagged(record) ==
  \/ Len(record.issues) > 0
  \/ Len(record.warnings) > 0
  \/ Len(record.validationIssues) > 0

\* .filter(...).sort(...): the records left out first, each part by index
FlaggedRecords(records) ==
  LET LeftOut(record) == ~record.included
      Included(record) == record.included
      flagged == SelectSeq(records, IsFlagged)
  IN SelectSeq(flagged, LeftOut) \o SelectSeq(flagged, Included)

buildQualityReport(data) ==
  TheOnly({
    TheOnly({
      [ analysed        |-> records,
        duplicateGroups |-> SortGroups(UnsortedGroups(entries)),
        totalRecords    |-> Len(data),
        includedCount   |-> Len(SelectSeq(records, LAMBDA record : record.included)),
        excludedCount   |->
          Len(data) - Len(SelectSeq(records, LAMBDA record : record.included)),
        flaggedRecords  |-> FlaggedRecords(records) ] :
        records \in {[k \in DOMAIN entries |-> WithSharedWarning(entries, k)]} }) :
      entries \in {Analysed(data)} })

(***************************************************************************)
(* app/game-client.tsx : the browse session                                *)
(***************************************************************************)
\* number of records of the browsed catalogue
NumGames == 14

\* user inputs and navigations in one session
MaxEvents == 1

sP == <<"p">>
sQ == <<"q">>
sOld == <<"o">>
sLow == <<"l">>
sSkill == <<"s">>
sUk == <<"u">>
sPadBOnly == <<" ","b"," ">>
sZ == <<"z">>
sG1 == <<"g","1">>
sG1Pad == <<"g","1"," ">>
sTwo == <<"2">>
sZero == <<"0">>
sMinusOne == <<"-","1">>
sNinetyNine == <<"9","9">>
sAbc == <<"a","b","c">>

BrowseGame(n) ==
  Obj( [ name |-> Str(<<"G">> \o NumberToString(n)),
         tags |-> IF n % 2 = 1 THEN Arr(<<Str(sA), Str(sB)>>)
                  ELSE IF n % 4 = 0 THEN Arr(<<Str(sB)>>)
                  ELSE IF n = 2 THEN Arr(<<Str(sPadA)>>) ELSE Arr(<<>>),
         skillsDeveloped |-> IF n <= 2 THEN Arr(<<Str(sSkill)>>) ELSE Arr(<<>>),
         regionalPopularity |->
           IF n = 1 \/ n > 12 THEN Arr(<<Str(sUk)>>) ELSE Arr(<<>>) ]
       @@ (IF n % 2 = 0 THEN [category |-> Str(sP)]
           ELSE IF n % 3 = 0 THEN [category |-> Str(sQ)] ELSE <<>>)
       @@ (IF n % 5 = 0 THEN [traditionality |-> Str(<<>>)]
           ELSE IF n % 5 = 1 THEN [traditionality |-> Str(sOld)] ELSE <<>>)
       @@ (IF n % 3 = 1 THEN [prepLevel |-> Str(sLow)] ELSE <<>>) )

\* games.json of the browsed site: the games from the last to the first, a
\* repeated record and a record without a name
BrowseData ==
  [k \in 1..NumGames |-> BrowseGame(NumGames + 1 - k)]
    \o <<BrowseGame(1), Obj([id |-> Str(sX)])>>

\* query strings the address bar can be given
UrlPool ==
  { <<>>,
    << <<"page", sTwo>> >>,
    << <<"page", sTwo>>, <<"q", sG1Pad>> >>,
    << <<"page", sMinusOne>>, <<"category", sQ>>, <<"category", sP>>,
       <<"tags", sB>> >>,
    << <<"page", sNinetyNine>>, <<"utm", sZ>> >>,
    << <<"tags", sPadBOnly>>, <<"tags", sA>>, <<"tags", sB>>, <<"tags", <<>>>>,
       <<"page", sZero>> >>,
    << <<"category", sZ>>, <<"skillsDeveloped", sSkill>>, <<"page", sAbc>> >> }

\* texts the search box can be given
TypedQueries == { <<>>, sBlank, sG1Pad }

\* The effects of a render run before React handles the next event, so an
\* action is an event together with the renders and effects it causes.

\* after the mount: both effects have run once on the decoded state (the
\* reading effect then finds the state it decoded itself)
BrowseInit ==
  /\ rawData = BrowseData
  /\ cursor = Len(BrowseData) + 1
  /\ seenIds = LoadAll(BrowseData).seenIds
  /\ normalisedGames = LoadAll(BrowseData).normalisedGames
  /\ assignedIds = LoadAll(BrowseData).assignedIds
  /\ sourceIndex = LoadAll(BrowseData).sourceIndex
  /\ pc = "done"
  /\ searchParams \in UrlPool
  /\ filters = UrlReadEffect(buildFiltersFromParams(searchParams), searchParams)
  /\ debouncedQuery = filters.query
  /\ pendingReplace = UrlWriteEffect(filters, debouncedQuery, searchParams, <<>>)
  /\ events = 0

CanHandleEvent == pc = "done" /\ events < MaxEvents

\* the debounced query follows the state at once
SetFiltersUndebounced(next) ==
  /\ filters' = next
  /\ debouncedQuery' = next.query
  /\ pendingReplace' =
       UrlWriteEffect(next, next.query, searchParams, pendingReplace)
  /\ events' = events + 1
  /\ UNCHANGED searchParams
  /\ UNCHANGED loaderVars

\* setFilters(next) with a new state object: the render re-runs the
\* URL-writing effect (filters is one of its dependencies)
SetFilters(next) ==
  /\ filters' = next
  /\ pendingReplace' =
       UrlWriteEffect(next, debouncedQuery, searchParams, pendingReplace)
  /\ events' = events + 1
  /\ UNCHANGED <<debouncedQuery, searchParams>>
  /\ UNCHANGED loaderVars

\* setFilters(prev => prev): React bails out, nothing re-renders
KeepFilters == UNCHANGED vars

\* useSearchParams returns another query: the render runs the writing
\* effect with the filters it still has, then the reading effect, and the
\* render that a changed state causes runs the writing effect again
SearchParamsChange(params) ==
  LET written == UrlWriteEffect(filters, debouncedQuery, params, pendingReplace)
      read    == UrlReadEffect(filters, params)
  IN /\ searchParams' = params
     /\ filters' = read
     /\ pendingReplace' =
          IF areFiltersEqual(filters, buildFiltersFromParams(params))
            THEN written
            ELSE UrlWriteEffect(read, debouncedQuery, params, written)
     /\ UNCHANGED debouncedQuery
     /\ UNCHANGED loaderVars

\* the options a filter group offers, and the chips of the active filters
FacetChoices(key) == UniqueValueSet(key) \cup Range(filters[key])

\* an onChange that leaves the page where it is
QueryChangeKeepingPage ==
  /\ CanHandleEvent
  /\ \E text \in TypedQueries :
       /\ text # filters.query
       /\ SetFilters([filters EXCEPT !.query = text])

\* the search box's onChange (lines 574-580)
QueryChange ==
  /\ CanHandleEvent
  /\ \E text \in TypedQueries :
       /\ text # filters.query
       /\ SetFilters([filters EXCEPT !.query = text, !.page = DEFAULT_PAGE])

updateFilterValue ==
  /\ CanHandleEvent
  /\ \E key \in FacetKeySet : \E value \in FacetChoices(key) :
       \E include \in BOOLEAN :
         LET hasValue == value \in Range(filters[key])
             nextValues ==
               IF include THEN SortStrings(Append(filters[key], value))
               ELSE LET Other(v) == v # value
                    IN SelectSeq(filters[key], Other)
         IN IF (include /\ hasValue) \/ (~include /\ ~hasValue)
              THEN KeepFilters
              ELSE SetFilters([filters EXCEPT ![key] = nextValues,
                                              !.page = DEFAULT_PAGE])

clearFilterGroup ==
  /\ CanHandleEvent
  /\ \E key \in FacetKeySet :
       IF Len(filters[key]) = 0
         THEN KeepFilters
         ELSE SetFilters([filters EXCEPT ![key] = <<>>, !.page = DEFAULT_PAGE])

resetFilters ==
  /\ CanHandleEvent
  /\ SetFilters(createDefaultFilters)

\* called with a page link's number, or with the neighbour of currentPage;
\* the pagination is rendered when totalPages > 1
handlePageChange ==
  /\ CanHandleEvent
  /\ totalPages > 1
  /\ \E page \in 1..totalPages :
       SetFilters([filters EXCEPT !.page = Max(page, DEFAULT_PAGE)])

handleSearchSubmit ==
  /\ CanHandleEvent
  /\ SetFilters([filters EXCEPT !.query = Trim(filters.query),
                                !.page = DEFAULT_PAGE])

\* fuse.search(trimmed).slice(0, 5) once two characters are typed
suggestions ==
  IF Len(Trim(filters.query)) < 2 THEN <<>>
  ELSE Slice(FuseSearch(Trim(filters.query)), 0, 5)

handleSuggestionSelect ==
  /\ CanHandleEvent
  /\ \E game \in Range(suggestions) :
       SetFilters([filters EXCEPT !.query = game.name.v, !.page = DEFAULT_PAGE])

\* the 300 ms timer of useDebounce fires; the render re-runs the
\* URL-writing effect when currentPage, its dependency, changed
DebounceElapsed ==
  /\ pc = "done"
  /\ debouncedQuery # filters.query
  /\ debouncedQuery' = filters.query
  /\ pendingReplace' =
       IF CurrentPageOf(filters, filters.query) # currentPage
         THEN UrlWriteEffect(filters, filters.query, searchParams, pendingReplace)
         ELSE pendingReplace
  /\ UNCHANGED <<filters, searchParams, events>>
  /\ UNCHANGED loaderVars

\* the address bar is given another query string (link, back, manual edit)
Navigate ==
  /\ CanHandleEvent
  /\ \E url \in UrlPool :
       /\ url # searchParams
       /\ SearchParamsChange(url)
  /\ events' = events + 1

\* a router.replace takes effect: useSearchParams returns the new query
ReplaceArrives ==
  /\ pc = "done"
  /\ pendingReplace # <<>>
  /\ IF Head(pendingReplace) = searchParams
       THEN /\ pendingReplace' = Tail(pendingReplace)
            /\ UNCHANGED <<filters, debouncedQuery, searchParams>>
            /\ UNCHANGED loaderVars
       ELSE LET params  == Head(pendingReplace)
                rest    == Tail(pendingReplace)
                written == UrlWriteEffect(filters, debouncedQuery, params, rest)
                read    == UrlReadEffect(filters, params)
            IN /\ searchParams' = params
               /\ filters' = read
               /\ pendingReplace' =
                    IF areFiltersEqual(filters, buildFiltersFromParams(params))
                      THEN written
                      ELSE UrlWriteEffect(read, debouncedQuery, params, written)
               /\ UNCHANGED debouncedQuery
               /\ UNCHANGED loaderVars
  /\ UNCHANGED events

BrowseNext ==
  \/ QueryChange
  \/ updateFilterValue
  \/ clearFilterGroup
  \/ resetFilters
  \/ handlePageChange
  \/ handleSearchSubmit
  \/ handleSuggestionSelect
  \/ DebounceElapsed
  \/ Navigate
  \/ ReplaceArrives

BrowseSpec == BrowseInit /\ [][BrowseNext]_vars

\* a router.replace that was called takes effect, and the debounce timer
\* that was started fires; the user and the address bar are free to stay
\* still
BrowseFairSpec ==
  /\ BrowseSpec
  /\ WF_vars(ReplaceArrives)
  /\ WF_vars(DebounceElapsed)

\* ---- a session caught right after the user's first input: the page was
\* opened with no query string, the user typed a query or ticked one facet
\* value, and the router.replace that the input caused is still on its way
\* (the debounce timer has not fired yet)
AfterFirstInput ==
  { [createDefaultFilters EXCEPT !.query = text] :
      text \in (TypedQueries \cup {sG1}) \ {<<>>} }
    \cup UNION { { [createDefaultFilters EXCEPT ![key] = <<value>>] :
                     value \in UniqueValueSet(key) } : key \in FacetKeySet }

RaceInit ==
  /\ rawData = BrowseData
  /\ cursor = Len(BrowseData) + 1
  /\ seenIds = LoadAll(BrowseData).seenIds
  /\ normalisedGames = LoadAll(BrowseData).normalisedGames
  /\ assignedIds = LoadAll(BrowseData).assignedIds
  /\ sourceIndex = LoadAll(BrowseData).sourceIndex
  /\ pc = "done"
  /\ searchParams = <<>>
  /\ filters \in AfterFirstInput
  /\ debouncedQuery = <<>>
  /\ pendingReplace = UrlWriteEffect(filters, debouncedQuery, searchParams, <<>>)
  /\ events = 0

RaceSpec == RaceInit /\ [][BrowseNext]_vars

(***************************************************************************)
(* app/game-client.tsx : the URL codec on its own                          *)
(***************************************************************************)
\* values selected in one facet of a codec input
MaxSelected == 2

\* texts a facet value can be: plain, padded, empty, with an inner blank
FacetTexts == { sA, sB, sPadBOnly, <<>>, <<"a", " ", "b">> }

\* page texts an address bar can carry
PageTexts == { <<>>, sZero, sMinusOne, sAbc, sTwo, sNinetyNine, <<" ", "2">>,
               <<"2", "x">>, <<"-">>, <<"+", "2">> }

\* filter states of any shape: facet lists unsorted, repeated, padded
CodecStates ==
  { [ createDefaultFilters EXCEPT !.query = query, !.page = page,
                                  !.tags = tags, !.category = category ] :
      query \in {<<>>, sBlank, sG1, sG1Pad},
      page \in {1, 2, 99},
      tags \in SeqsUpTo(FacetTexts, MaxSelected),
      category \in {<<>>, <<sP>>, <<sP, sQ>>, <<sQ, sP>>} }

\* query strings of any shape: repeated and unknown keys, odd page texts
CodecQueries ==
  UrlPool \cup
  { [k \in DOMAIN tags |-> <<"tags", tags[k]>>] \o extra :
      tags \in SeqsUpTo(FacetTexts, MaxSelected),
      extra \in { <<>>,
                  << <<"q", sG1Pad>>, <<"q", sA>> >>,
                  << <<"utm", sZ>>, <<"Tags", sA>>, <<"page", sTwo>>,
                     <<"page", sNinetyNine>> >> }
              \cup { << <<"page", text>> >> : text \in PageTexts } }

\* either a state to encode or a query string to decode
CodecInit ==
  /\ rawData = BrowseData
  /\ cursor = Len(BrowseData) + 1
  /\ seenIds = LoadAll(BrowseData).seenIds
  /\ normalisedGames = LoadAll(BrowseData).normalisedGames
  /\ assignedIds = LoadAll(BrowseData).assignedIds
  /\ sourceIndex = LoadAll(BrowseData).sourceIndex
  /\ pc = "done"
  /\ pendingReplace = <<>>
  /\ \/ /\ events = 0
        /\ filters \in CodecStates
        /\ searchParams = <<>>
     \/ /\ events = 1
        /\ filters = createDefaultFilters
        /\ searchParams \in CodecQueries
  /\ debouncedQuery = filters.query

\* the URL-writing effect's query string reaches the address bar
Encode ==
  /\ events = 0
  /\ searchParams' = EncodedSearch(filters, currentPage)
  /\ events' = 1
  /\ UNCHANGED <<filters, debouncedQuery, pendingReplace>>
  /\ UNCHANGED loaderVars

\* the address bar's query string is decoded into the state
Decode ==
  /\ events = 1
  /\ filters' = buildFiltersFromParams(searchParams)
  /\ debouncedQuery' = filters'.query
  /\ events' = 2
  /\ UNCHANGED <<searchParams, pendingReplace>>
  /\ UNCHANGED loaderVars

CodecNext ==
  \/ Encode
  \/ Decode

CodecSpec == CodecInit /\ [][CodecNext]_vars

(***************************************************************************)
(* Properties of the loader                                                *)
(***************************************************************************)
Catalog == Range(normalisedGames)

CatalogIndex == DOMAIN normalisedGames

\* the raw record a catalogue entry was built from, after trimStrings
SourceOf(k) == trimStrings(rawData[sourceIndex[k]])

Processed == DOMAIN assignedIds

PassesValidation(i) ==
  safeParse(gameToNormalise(trimStrings(rawData[i]), assignedIds[i])).success

InCatalog(i) == \E k \in CatalogIndex : sourceIndex[k] = i

\* C1: no two records of the Catalog have the same id, however many input
\* records share an explicit or a derived id.
C1_UniqueIds ==
  \A a, b \in CatalogIndex :
    normalisedGames[a].id = normalisedGames[b].id => a = b

\* three input records were assigned one id and the load finished
C1_Witness ==
  /\ pc = "done"
  /\ \E i, j, k \in Processed :
       /\ i < j /\ j < k
       /\ assignedIds[i] # <<>>
       /\ assignedIds[i] = assignedIds[j] /\ assignedIds[j] = assignedIds[k]
       /\ InCatalog(i)

\* C2 (as claimed): after the load, for every id X the first record in input
\* order that has id X and passes schema validation is in the Catalog.
C2_FirstValidWins ==
  pc = "done" =>
    \A i \in Processed :
      ( /\ assignedIds[i] # <<>>
        /\ PassesValidation(i)
        /\ \A j \in 1..(i - 1) :
             assignedIds[j] = assignedIds[i] => ~PassesValidation(j) )
      => InCatalog(i)

IsTraversable(x) == x.t = "object"

\* C3 (as claimed): loadGames raises no exception on a non-traversable
\* element (null, scalar, array), excludes it, and builds the Catalog it
\* would build with those elements removed from the input.
C3_NeverHalts ==
  /\ pc # "threw"
  /\ \A k \in CatalogIndex : IsTraversable(rawData[sourceIndex[k]])
  /\ pc = "done" =>
       normalisedGames =
         LoadAll(SelectSeq(rawData, IsTraversable)).normalisedGames

\* the id the claim describes: the explicit id when it is a non-empty string,
\* else slugify(name) when name is a string, else none
ClaimedId(trimmed) ==
  IF Truthy(Get(trimmed, "id")) THEN Get(trimmed, "id").v
  ELSE IF IsString(Get(trimmed, "name")) THEN slugify(Get(trimmed, "name").v)
  ELSE <<>>

\* C4 (as claimed): the id assigned to a record is its explicit id when that
\* is a non-empty string, otherwise slugify(name) when a name string exists;
\* an empty explicit id falls back to the name.
C4_IdDerivation ==
  \A i \in Processed :
    IsTraversable(rawData[i]) =>
      assignedIds[i] = ClaimedId(trimStrings(rawData[i]))

RECURSIVE AllLeavesTrimmed(_)
AllLeavesTrimmed(x) ==
  IF IsString(x) THEN Trim(x.v) = x.v
  ELSE IF x.t = "array" THEN \A k \in DOMAIN x.v : AllLeavesTrimmed(x.v[k])
  ELSE IF x.t = "object" THEN \A key \in DOMAIN x.v : AllLeavesTrimmed(x.v[key])
  ELSE TRUE

\* C5 (as claimed): trimStrings leaves no string leaf, at any depth, with
\* leading or trailing whitespace, so no string of a Catalog record has any.
C5_EveryLeafTrimmed ==
  /\ \A i \in Processed : AllLeavesTrimmed(trimStrings(rawData[i]))
  /\ \A g \in Catalog : AllLeavesTrimmed(Obj(g))

\* C6 (as claimed): in every Catalog record each optional string field is
\* null/absent or a string whose trimmed lower-cased value is none of
\* "", "null", "null,".
C6_NoSentinels ==
  \A g \in Catalog : \A key \in OptionalStringKeys :
    \/ g[key].t \in {"null", "undefined"}
    \/ IsString(g[key]) /\ ToLowerCase(Trim(g[key].v)) \notin NullishStrings

\* the catalogue entry g holds the pair (lo, hi) of its source t exchanged
\* when that pair is inverted and as given otherwise
PairCorrected(g, t, lo, hi) ==
  LET a == Get(t, lo)
      b == Get(t, hi)
  IN /\ (IsNumber(g[lo]) /\ IsNumber(g[hi])) => g[lo].v <= g[hi].v
     /\ IF IsNumber(a) /\ IsNumber(b) /\ a.v > b.v
          THEN g[lo] = b /\ g[hi] = a
          ELSE /\ IsNumber(a) => g[lo] = a
               /\ IsNumber(b) => g[hi] = b

\* C7: in every Catalog record ageMin <= ageMax and playersMin <= playersMax
\* whenever both are numbers; an inverted input pair is corrected by
\* exchanging exactly those two values, each pair independently.
C7_RangesOrdered ==
  \A k \in CatalogIndex :
    /\ PairCorrected(normalisedGames[k], SourceOf(k), "ageMin", "ageMax")
    /\ PairCorrected(normalisedGames[k], SourceOf(k), "playersMin", "playersMax")

\* a Catalog record whose source had exactly one of its two pairs inverted
C7_Witness ==
  \E k \in CatalogIndex :
    /\ IsInverted(Get(SourceOf(k), "ageMin"), Get(SourceOf(k), "ageMax"))
    /\ IsNumber(Get(SourceOf(k), "playersMin"))
    /\ IsNumber(Get(SourceOf(k), "playersMax"))
    /\ ~IsInverted(Get(SourceOf(k), "playersMin"), Get(SourceOf(k), "playersMax"))

\* C8 (as claimed): a record whose ageMin, ageMax, playersMin or playersMax
\* is present but neither an integer nor null is absent from the Catalog.
C8_NonIntegerRejected ==
  \A i \in Processed :
    ( /\ IsTraversable(rawData[i])
      /\ \E key \in OptionalIntKeys :
           /\ Get(rawData[i], key).t \notin {"undefined", "null"}
           /\ ~IsInteger(Get(rawData[i], key)) )
    => ~InCatalog(i)

\* one more pass of the loop body over an accepted record
Renormalised(g) ==
  safeParse(gameToNormalise(trimStrings(Obj(g)), DeriveId(trimStrings(Obj(g)))))

\* C9: feeding a Catalog record back through trim, id derivation, sentinel
\* normalisation, range guard and validation yields the same record, with the
\* same id and without a swap.
C9_Idempotent ==
  \A g \in Catalog :
    /\ Renormalised(g).success
    /\ Renormalised(g).data = g
    /\ DeriveId(trimStrings(Obj(g))) = g.id.v
    /\ ~IsInverted(g.ageMin, g.ageMax)
    /\ ~IsInverted(g.playersMin, g.playersMax)

\* a Catalog record that differs from its source: a padded string was
\* trimmed and an inverted range was exchanged
C9_Witness ==
  \E k \in CatalogIndex :
    /\ IsInverted(Get(SourceOf(k), "ageMin"), Get(SourceOf(k), "ageMax"))
    /\ \E key \in OptionalStringKeys :
         /\ IsString(Get(rawData[sourceIndex[k]], key))
         /\ normalisedGames[k][key] # Get(rawData[sourceIndex[k]], key)

(***************************************************************************)
(* Properties of the browse session                                        *)
(***************************************************************************)
ScalarFacets == {"category", "traditionality", "prepLevel"}

\* the values a record carries for a facet: the string of a scalar facet
\* (none when it is absent or null), the elements of an array facet
FacetValuesOf(game, key) ==
  IF key \in ScalarFacets
    THEN IF IsString(game[key]) THEN {game[key].v} ELSE {}
    ELSE { game[key].v[k].v : k \in DOMAIN game[key].v }

\* the record satisfies every facet that has a non-empty selection
SatisfiesFacets(game, f) ==
  \A key \in FacetKeySet :
    f[key] # <<>> => FacetValuesOf(game, key) \cap Range(f[key]) # {}

\* C10: in every state of the browse session the filtered result is exactly
\* the subsequence, in the order of the search results, of the records that
\* satisfy every facet with a non-empty selection: a scalar facet's value is
\* a member of the selection, an array facet shares an element with it; an
\* empty selection does not constrain, values of one facet combine with OR
\* and distinct facets with AND.
C10_FacetFilterExact ==
  pc = "done" =>
    LET Wanted(game) == SatisfiesFacets(game, filters)
    IN filteredGames = SelectSeq(searchResults(debouncedQuery), Wanted)

\* two values selected in one facet and one in another, some records kept
\* (one for each of the two values) and some dropped by each facet alone
C10_Witness ==
  /\ pc = "done"
  /\ events > 0
  /\ Len(filters.category) >= 2
  /\ Len(filters.tags) >= 1
  /\ \A v \in Range(filters.category) :
       \E k \in DOMAIN filteredGames : filteredGames[k].category.v = v
  /\ \E k \in DOMAIN allGames :
       /\ FacetValuesOf(allGames[k], "category") \cap Range(filters.category) = {}
       /\ FacetValuesOf(allGames[k], "tags") \cap Range(filters.tags) # {}
  /\ \E k \in DOMAIN allGames :
       /\ FacetValuesOf(allGames[k], "category") \cap Range(filters.category) # {}
       /\ FacetValuesOf(allGames[k], "tags") \cap Range(filters.tags) = {}
  /\ Len(filteredGames) < Len(searchResults(debouncedQuery))

\* ceil(n / d) by counting, for n >= 0 and d > 0
CeilingOf(n, d) == CHOOSE q \in 0..n : q * d >= n /\ (q = 0 \/ (q - 1) * d < n)

\* C11: in every state of the browse session FilterState.page is at least 1
\* and the effective current page lies between 1 and
\* max(1, ceil(totalCount / 12)), whatever page the URL or handlePageChange
\* asked for; a page text of any shape decodes to a page of at least 1.
C11_PageInRange ==
  pc = "done" =>
    /\ filters.page >= 1
    /\ currentPage >= 1
    /\ currentPage <= Max(1, CeilingOf(Len(filteredGames), 12))
    /\ \A text \in PageTexts : parsePageParam(Str(text)) >= 1

\* a page far beyond the last one was requested and the last page is shown
C11_Witness ==
  /\ pc = "done"
  /\ filters.page > totalPages
  /\ totalPages > 1
  /\ currentPage = totalPages

\* a page below 1 was requested through the URL and page 1 is in force
C11_WitnessBelow ==
  /\ pc = "done"
  /\ ParamGet(searchParams, "page") # Null
  /\ ~ParseInt(ParamGet(searchParams, "page").v).nan
  /\ ParseInt(ParamGet(searchParams, "page").v).n < 1
  /\ filters.page = 1

\* the pages 1..last of items, one after the other
RECURSIVE ConcatPages(_, _)
ConcatPages(items, last) ==
  IF last = 0 THEN <<>>
  ELSE ConcatPages(items, last - 1)
         \o Slice(items, (last - 1) * perPage, last * perPage)

\* C12: with n the length of the filtered sequence, totalPages is
\* ceil(n / 12) and the displayed page holds exactly the elements at the
\* positions [(p-1)*12, p*12) of the filtered sequence for the effective
\* page p; it has at most 12 records, is non-empty when n > 0, and the pages
\* 1..totalPages one after the other give back the filtered sequence.
C12_PageSlice ==
  pc = "done" =>
    \A items \in {filteredGames} : \A shown \in {paginatedGames} :
      LET n     == Len(items)
          first == (currentPage - 1) * 12
          count == IF n - first >= 12 THEN 12
                   ELSE IF n - first > 0 THEN n - first ELSE 0
      IN /\ totalPages = CeilingOf(n, 12)
         /\ shown = [k \in 1..count |-> items[first + k]]
         /\ Len(shown) <= 12
         /\ n > 0 => Len(shown) > 0
         /\ ConcatPages(items, totalPages) = items

\* the last page of more than one is shown and it is not full
C12_Witness ==
  /\ pc = "done"
  /\ totalPages > 1
  /\ currentPage = totalPages
  /\ Len(paginatedGames) > 0
  /\ Len(paginatedGames) < 12
  /\ paginatedGames[1] = filteredGames[13]

(***************************************************************************)
(* Properties of the URL codec                                             *)
(***************************************************************************)
\* facet values trimmed, non-empty, without repetition and in sorted order;
\* query trimmed; page at least 1 and within the pages of the state
IsCanonical(f) ==
  /\ \A key \in FacetKeySet :
       /\ \A k \in DOMAIN f[key] :
            f[key][k] # <<>> /\ Trim(f[key][k]) = f[key][k]
       /\ \A j, k \in DOMAIN f[key] :
            j < k => f[key][j] # f[key][k] /\ LocaleLeq(f[key][j], f[key][k])
  /\ Trim(f.query) = f.query
  /\ f.page >= 1
  /\ f.page <= Max(1, TotalPagesOf(f, f.query))

\* C13: for every canonical FilterState s, decoding with
\* buildFiltersFromParams the query string the URL-writing effect produces
\* for s gives a state deep-equal to s.
C13_RoundTrip ==
  IsCanonical(filters) =>
    /\ buildFiltersFromParams(EncodedSearch(filters, CurrentPageOf(filters, filters.query)))
         = filters
    /\ areFiltersEqual(
         buildFiltersFromParams(EncodedSearch(filters, CurrentPageOf(filters, filters.query))),
         filters)

\* a canonical state with a query, two values in one facet, one in another
\* and page 2 has gone through Encode and Decode
C13_Witness ==
  /\ events = 2
  /\ IsCanonical(filters)
  /\ searchParams = EncodedSearch(filters, currentPage)
  /\ Len(filters.category) = 2
  /\ Len(filters.tags) = 1
  /\ filters.traditionality = <<>>

\* a canonical state on page 2 has gone through Encode and Decode
C13_WitnessPage ==
  /\ events = 2
  /\ IsCanonical(filters)
  /\ searchParams = EncodedSearch(filters, currentPage)
  /\ filters.page = 2

\* a canonical state with a query has gone through Encode and Decode
C13_WitnessQuery ==
  /\ events = 2
  /\ IsCanonical(filters)
  /\ searchParams = EncodedSearch(filters, currentPage)
  /\ filters.query # <<>>

\* the values a query string lists for a facet are trimmed, non-empty,
\* without repetition and in sorted order
ListsCanonically(params, key) ==
  LET values == ParamValues(params, key)
  IN /\ \A k \in DOMAIN values : values[k] # <<>> /\ Trim(values[k]) = values[k]
     /\ \A j, k \in DOMAIN values :
          j < k => values[j] # values[k] /\ LocaleLeq(values[j], values[k])

\* C14: in every state of the browse session the query string the
\* URL-writing effect builds omits q when the query is empty or only
\* whitespace, omits page when the effective page is 1, and lists for each
\* facet exactly its selected values, which are trimmed, without repetition
\* and in sorted order.
C14_CanonicalEncoding ==
  pc = "done" =>
    LET written == EncodedSearch(filters, currentPage)
    IN /\ Trim(filters.query) = <<>> => ParamGet(written, "q") = Null
       /\ currentPage = 1 => ParamGet(written, "page") = Null
       /\ \A key \in FacetKeySet :
            /\ ParamValues(written, key) = filters[key]
            /\ ListsCanonically(written, key)

\* the part of C14 that does not depend on the facet values being trimmed
C14_OmitsDefaults ==
  pc = "done" =>
    LET written == EncodedSearch(filters, currentPage)
    IN /\ Trim(filters.query) = <<>> => ParamGet(written, "q") = Null
       /\ currentPage = 1 => ParamGet(written, "page") = Null
       /\ \A key \in FacetKeySet :
            /\ ParamValues(written, key) = filters[key]
            /\ \A j, k \in DOMAIN filters[key] :
                 j < k => /\ filters[key][j] # filters[key][k]
                          /\ LocaleLeq(filters[key][j], filters[key][k])

\* the page Number.parseInt reads from each text of PageTexts, 1 standing for
\* a text that has none or one below 1
ExpectedPage(text) ==
  IF text \in {sTwo, <<" ", "2">>, <<"2", "x">>, <<"+", "2">>} THEN 2
  ELSE IF text = sNinetyNine THEN 99
  ELSE 1

KnownKeys == {"q", "page"} \cup FacetKeySet

\* C15: for any query string buildFiltersFromParams returns a well-formed
\* FilterState: query is the first q parameter or the empty string; page is
\* the integer the page parameter parses to when that is at least 1 and 1
\* otherwise; each facet holds the supplied values trimmed, without the
\* empty ones, without repetition and sorted; parameters under any other
\* key change nothing.
C15_DecodeFailsClosed ==
  LET decoded == buildFiltersFromParams(searchParams)
      Known(pair) == pair[1] \in KnownKeys
      pages == ParamValues(searchParams, "page")
      queries == ParamValues(searchParams, "q")
  IN /\ DOMAIN decoded = DOMAIN createDefaultFilters
     /\ decoded.query = IF queries = <<>> THEN <<>> ELSE queries[1]
     /\ decoded.page \in Nat /\ decoded.page >= 1
     /\ pages = <<>> => decoded.page = 1
     /\ (pages # <<>> /\ pages[1] \in PageTexts)
          => decoded.page = ExpectedPage(pages[1])
     /\ \A key \in FacetKeySet :
          /\ Range(decoded[key])
               = { Trim(v) : v \in Range(ParamValues(searchParams, key)) } \ {<<>>}
          /\ \A j, k \in DOMAIN decoded[key] :
               j < k => /\ decoded[key][j] # decoded[key][k]
                        /\ LocaleLeq(decoded[key][j], decoded[key][k])
     /\ buildFiltersFromParams(SelectSeq(searchParams, Known)) = decoded

\* a query string with an unknown key, a repeated page and padded, repeated
\* or empty facet values has been decoded
C15_Witness ==
  /\ events = 2
  /\ filters = buildFiltersFromParams(searchParams)
  /\ \E k \in DOMAIN searchParams : searchParams[k][1] \notin KnownKeys
  /\ Len(ParamValues(searchParams, "page")) > 1
  /\ Len(ParamValues(searchParams, "tags")) > Len(filters.tags)
  /\ filters.tags # <<>>

\* a query string with a page text that is no page has been decoded
C15_WitnessPage ==
  /\ events = 2
  /\ filters = buildFiltersFromParams(searchParams)
  /\ ParamValues(searchParams, "page") # <<>>
  /\ ParamValues(searchParams, "page")[1] \in {sZero, sMinusOne, sAbc, <<"-">>}
  /\ filters.page = 1

(***************************************************************************)
(* Properties of the URL synchronisation                                   *)
(***************************************************************************)
\* nothing is left to do: no router.replace is outstanding, the encoded
\* state is the address-bar query string and the decoded query string is
\* the state
SyncFixedPoint ==
  /\ pendingReplace = <<>>
  /\ EncodedSearch(filters, currentPage) = searchParams
  /\ areFiltersEqual(filters, buildFiltersFromParams(searchParams))

\* C16: once the user inputs and navigations have stopped, the two sync
\* effects perform finitely many router.replace and setFilters steps and the
\* session stays in a fixed point where the encoded state equals the
\* address-bar query string and the decoded query string equals the state.
C16_SyncTerminates == <>[]SyncFixedPoint

\* the texts FilterState.query takes in a session
QueryTexts ==
  TypedQueries \cup {sG1} \cup { <<"G">> \o NumberToString(n) : n \in 1..NumGames }

C17_WitnessWaiting ==
  /\ pc = "done"
  /\ filters.query = sG1Pad
  /\ debouncedQuery = <<>>
  /\ Len(filteredGames) = Len(allGames)

\* the step is a router.replace taking effect
IsArrival ==
  /\ events' = events
  /\ debouncedQuery' = debouncedQuery
  /\ pendingReplace # <<>>
  /\ vars' # vars

\* the router.replace calls made in the step, in order
ReplaceCalls ==
  LET kept == IF IsArrival THEN Len(pendingReplace) - 1 ELSE Len(pendingReplace)
  IN SubSeq(pendingReplace', kept + 1, Len(pendingReplace'))

PositionsOf(anId) ==
  { k \in DOMAIN rawData :
      IsTraversable(rawData[k]) /\ ClaimedId(trimStrings(rawData[k])) = anId }

DerivedIds ==
  { ClaimedId(trimStrings(rawData[k])) :
      k \in { j \in DOMAIN rawData : IsTraversable(rawData[j]) } } \ {<<>>}

\* the sequence lists exactly the members of the set, in increasing order
ListsInOrder(indices, positions) ==
  /\ Range(indices) = positions
  /\ \A j, k \in DOMAIN indices : j < k => indices[j] < indices[k]

\* C19: once the catalogue is loaded, for every derived id shared by k >= 2
\* traversable input records the report has exactly one duplicate group,
\* with count k and with the 1-based positions of those records in input
\* order as its indices, and the Catalog has at most one record with that
\* id; an id held by one record has no group, and there is no other group.
C19_DuplicateGroups ==
  pc = "done" =>
    LET groups == buildQualityReport(rawData).duplicateGroups
        GroupsOf(anId) == { g \in DOMAIN groups : groups[g].id = anId }
    IN /\ \A anId \in DerivedIds :
            /\ Cardinality(PositionsOf(anId)) >= 2
                 => /\ Cardinality(GroupsOf(anId)) = 1
                    /\ \A g \in GroupsOf(anId) :
                         /\ groups[g].count = Cardinality(PositionsOf(anId))
                         /\ ListsInOrder(groups[g].indices, PositionsOf(anId))
            /\ Cardinality(PositionsOf(anId)) = 1 => GroupsOf(anId) = {}
            /\ Cardinality({ k \in CatalogIndex : normalisedGames[k].id.v = anId }) <= 1
       /\ \A g \in DOMAIN groups : groups[g].id \in DerivedIds

\* three records share an id, one of them by the slug of its name and not
\* all next to each other, one is in the Catalog, and the report groups them
C19_Witness ==
  /\ pc = "done"
  /\ \E anId \in DerivedIds :
       /\ Cardinality(PositionsOf(anId)) = 3
       /\ \E k \in CatalogIndex : normalisedGames[k].id.v = anId
       /\ \E g \in DOMAIN buildQualityReport(rawData).duplicateGroups :
            /\ buildQualityReport(rawData).duplicateGroups[g].id = anId
            /\ buildQualityReport(rawData).duplicateGroups[g].count = 3

\* the pair of keys holds two numbers, the first above the second
PairInverted(trimmed, low, high) ==
  /\ IsNumber(Get(trimmed, low))
  /\ IsNumber(Get(trimmed, high))
  /\ Get(trimmed, low).v > Get(trimmed, high).v

InvertedPairs(trimmed) ==
  { pair \in { <<"ageMin", "ageMax">>, <<"playersMin", "playersMax">> } :
      PairInverted(trimmed, pair[1], pair[2]) }

\* the warnings of an entry that name an inversion
InversionWarnings(entry) ==
  { k \in DOMAIN entry.warnings :
      entry.warnings[k][1] \in { "Age range inverted; values swapped",
                                 "Player range inverted; values swapped" } }

\* C20: an input record with ageMin > ageMax or playersMin > playersMax that
\* is valid once the bounds are exchanged and that repeats no earlier id is
\* marked included in the report, has no issue and no validation issue, and
\* carries one warning for each inverted pair, quoting the two numbers; when
\* it shares its id with no record these are all its warnings.
C20_InversionIsWarning ==
  pc = "done" =>
    \A k \in DOMAIN rawData :
      LET trimmed == trimStrings(rawData[k])
          derived == ClaimedId(trimmed)
          entry == buildQualityReport(rawData).analysed[k]
      IN ( /\ IsTraversable(rawData[k])
           /\ InvertedPairs(trimmed) # {}
           /\ safeParse(gameToNormalise(trimmed, derived)).success
           /\ \A j \in PositionsOf(derived) : j >= k )
         => /\ entry.included
            /\ entry.issues = <<>>
            /\ entry.validationIssues = <<>>
            /\ Cardinality(InversionWarnings(entry))
                 = Cardinality(InvertedPairs(trimmed))
            /\ \A pair \in InvertedPairs(trimmed) :
                 \E w \in InversionWarnings(entry) :
                   /\ entry.warnings[w][2] = Get(trimmed, pair[1]).v
                   /\ entry.warnings[w][3] = Get(trimmed, pair[2]).v
            /\ PositionsOf(derived) = {k}
                 => Len(entry.warnings) = Cardinality(InvertedPairs(trimmed))

\* a record with an inverted age range is in the Catalog with the bounds
\* exchanged, and the report includes it with that one warning
C20_Witness ==
  /\ pc = "done"
  /\ \E k \in CatalogIndex :
       /\ PairInverted(SourceOf(k), "ageMin", "ageMax")
       /\ normalisedGames[k].ageMin = Get(SourceOf(k), "ageMax")
       /\ buildQualityReport(rawData).analysed[sourceIndex[k]].included
       /\ Len(buildQualityReport(rawData).analysed[sourceIndex[k]].warnings) = 1

\* ---------------------------------------------------------------------------
\* the values a facet key has over the records of the accepted catalogue
OccursIn(game, key) ==
  { text \in {game[key].v} : IsString(game[key]) }
    \cup (IF game[key].t = "array"
            THEN { game[key].v[k].v :
                     k \in { j \in DOMAIN game[key].v : IsString(game[key].v[j]) } }
            ELSE {})

OccurringValues(key) ==
  UNION { OccursIn(game, key) : game \in Catalog } \ {<<>>}

\* strictly ascending by UTF-16 code units
StrictlyAscending(values) ==
  \A k \in 1..(Len(values) - 1) :
    values[k] # values[k + 1] /\ CodeUnitLeq(values[k], values[k + 1])

\* C21: when loading has finished, the list of every facet key holds exactly
\* the distinct non-empty strings that occur in that field, or in that array
\* field, of the catalogue records, each once and in ascending order; a value
\* that only a record outside the catalogue carries is not listed.
C21_FacetIndexExact ==
  pc = "done" =>
    \A key \in FacetKeySet :
      /\ Range(facets[key]) = OccurringValues(key)
      /\ StrictlyAscending(facets[key])
      /\ Len(facets[key]) = Cardinality(OccurringValues(key))

\* two catalogue records share values, an empty tag is dropped, and records
\* left out of the catalogue carry values of their own
C21_Witness ==
  /\ pc = "done"
  /\ Len(normalisedGames) = 2
  /\ Len(rawData) > 2
  /\ facets.tags = <<sUpperX, sA, sB>>
  /\ facets.category = <<sParty>>
  /\ \E k \in DOMAIN rawData :
       /\ rawData[k].t = "object"
       /\ "category" \in DOMAIN rawData[k].v
       /\ rawData[k].v.category.v \notin Range(facets.category)

\* ---------------------------------------------------------------------------
\* every value found in the input: the elements and the fields of the records
InputValues ==
  Range(rawData)
    \cup UNION { Range(rawData[i].v) : i \in { j \in DOMAIN rawData :
                                                 rawData[j].t = "object" } }

\* t is s without its leading and trailing whitespace
IsStrippedFormOf(t, s) ==
  \E lead \in 0..Len(s) : \E keep \in 0..(Len(s) - lead) :
    /\ t = SubSeq(s, lead + 1, lead + keep)
    /\ \A k \in 1..lead : s[k] \in Whitespace
    /\ \A k \in (lead + keep + 1)..Len(s) : s[k] \in Whitespace
    /\ t # <<>> => t[1] \notin Whitespace /\ t[Len(t)] \notin Whitespace

StrippedForms(s) ==
  { t \in { SubSeq(s, from, to) : from \in 1..(Len(s) + 1), to \in 0..Len(s) } :
      IsStrippedFormOf(t, s) }

\* the three texts that stand for "no value", in lower case
SentinelTexts == { <<>>, sNull, sNullComma }

\* C22: for every value of the input, normaliseNullishString gives null
\* exactly when the value is not a string or its stripped, lower-cased text is
\* "", "null" or "null,"; otherwise it gives the stripped string; and a second
\* application changes nothing.
C22_NormaliseNullish ==
  \A x \in InputValues :
    LET once == normaliseNullishString(x)
    IN /\ once = Null
            <=> \/ ~IsString(x)
                \/ \E u \in StrippedForms(x.v) : ToLowerCase(u) \in SentinelTexts
       /\ once # Null => IsString(once) /\ IsStrippedFormOf(once.v, x.v)
       /\ normaliseNullishString(once) = once

\* a padded text went through the loader and came out stripped
C22_Witness ==
  /\ pc = "done"
  /\ Len(normalisedGames) = 1
  /\ Get(rawData[1], "category") = Str(sPartyPad)
  /\ normaliseNullishString(Get(rawData[1], "category")) = Str(sParty)
  /\ normalisedGames[1].category = Str(sParty)

\* a capitalised, padded sentinel came out as null
C22_WitnessSentinel ==
  /\ pc = "done"
  /\ Len(normalisedGames) = 1
  /\ Get(rawData[1], "description") = Str(sNullLoud)
  /\ normaliseNullishString(Get(rawData[1], "description")) = Null
  /\ normalisedGames[1].description = Null

\* ---------------------------------------------------------------------------
\* the record states an id that is a non-empty text once stripped
HasUsableId(raw) ==
  /\ raw.t = "object"
  /\ IsString(Get(raw, "id"))
  /\ \E text \in StrippedForms(Get(raw, "id").v) : text # <<>>

\* the name is missing, no string, empty or a sentinel
LacksName(raw) ==
  \/ ~IsString(Get(raw, "name"))
  \/ \E text \in StrippedForms(Get(raw, "name").v) :
       ToLowerCase(text) \in SentinelTexts

\* C23: once loading has finished, an input record with a usable id and
\* without a usable name is not in the Catalog, and its entry of the report
\* is not included, carries the stripped id as derivedId and lists the
\* validation issue "name: Name is required".
C23_NamelessRejected ==
  pc = "done" =>
    \A k \in DOMAIN rawData :
      HasUsableId(rawData[k]) /\ LacksName(rawData[k])
        => \A entry \in {buildQualityReport(rawData).analysed[k]} :
             /\ ~InCatalog(k)
             /\ ~entry.included
             /\ entry.index = k - 1
             /\ IsStrippedFormOf(entry.derivedId, Get(rawData[k], "id").v)
             /\ <<"name", "Name is required">> \in Range(entry.validationIssues)

\* a record with an id and no name stands before a record that is accepted
C23_Witness ==
  /\ pc = "done"
  /\ Len(rawData) >= 2
  /\ HasUsableId(rawData[1])
  /\ "name" \notin DOMAIN rawData[1].v
  /\ InCatalog(2)
  /\ buildQualityReport(rawData).analysed[1].derivedId = sX
  /\ buildQualityReport(rawData).analysed[1].validationIssues
       = << <<"name", "Name is required">> >>

\* the name of the record is the sentinel "null" in capitals
C23_WitnessSentinel ==
  /\ pc = "done"
  /\ Len(rawData) = 1
  /\ HasUsableId(rawData[1])
  /\ Get(rawData[1], "name") = Str(sNullLoud)
  /\ normalisedGames = <<>>
  /\ ~buildQualityReport(rawData).analysed[1].included

\* ---------------------------------------------------------------------------
\* the query string now taking effect is the one written for the present state
OwnWriteArrives ==
  /\ pc = "done"
  /\ IsArrival
  /\ Head(pendingReplace) = EncodedSearch(filters, currentPage)

SameSelections(f, g) ==
  f.query = g.query /\ \A key \in FacetKeySet : f[key] = g[key]

\* C24: when the query string that the app wrote for its present state takes
\* effect in the address bar, the query and the facet selections in memory
\* stay as they are, and they are the ones that string decodes to.
C24_OwnWriteKeepsState ==
  [][ OwnWriteArrives
        => /\ SameSelections(filters', filters)
           /\ SameSelections(buildFiltersFromParams(searchParams'), filters) ]_vars

\* ---------------------------------------------------------------------------
\* an earlier router.replace takes effect after the state has moved on: the
\* arriving string is not the encoding of the present state, whose own
\* encoding was written later and is still on its way
StaleWriteArrives ==
  /\ pc = "done"
  /\ IsArrival
  /\ Len(pendingReplace) >= 2
  /\ Head(pendingReplace) # EncodedSearch(filters, currentPage)
  /\ pendingReplace[Len(pendingReplace)] = EncodedSearch(filters, currentPage)

\* C25: when the query string of an earlier router.replace takes effect
\* after the user has changed the filters again, the filters in memory stay
\* the newer ones.
C25_NewerInputWins ==
  [][ StaleWriteArrives => filters' = filters ]_vars

\* ---------------------------------------------------------------------------
\* C26: once loading has finished, the report marks an input record as
\* included exactly when the loader put that record into the Catalog;
\* includedCount is the size of the Catalog and excludedCount the number of
\* input records that are not in it.
C26_ReportAgreesWithCatalog ==
  pc = "done" =>
    \A report \in {buildQualityReport(rawData)} :
      /\ Len(report.analysed) = Len(rawData)
      /\ \A k \in DOMAIN rawData : report.analysed[k].included <=> InCatalog(k)
      /\ report.includedCount = Len(normalisedGames)
      /\ report.excludedCount
           = Cardinality({ k \in DOMAIN rawData : ~InCatalog(k) })

\* ---------------------------------------------------------------------------
\* C27: once loading has finished, the report has one entry for each input
\* record, the k-th entry carrying the index of the k-th record; an entry
\* that is not included has an issue or a validation issue; and every such
\* entry is among the flagged records, which are entries of the report, each
\* listed once.
C27_EveryExclusionExplained ==
  pc = "done" =>
    \A report \in {buildQualityReport(rawData)} :
      /\ DOMAIN report.analysed = DOMAIN rawData
      /\ \A k \in DOMAIN rawData :
           \A entry \in {report.analysed[k]} :
             /\ entry.index = k - 1
             /\ rawData[k].t # "object" => entry.derivedId = <<>>
             /\ ~entry.included
                  => /\ entry.issues # <<>> \/ entry.validationIssues # <<>>
                     /\ entry \in Range(report.flaggedRecords)
      /\ Range(report.flaggedRecords) \subseteq Range(report.analysed)
      /\ \A i, j \in DOMAIN report.flaggedRecords :
           i # j => report.flaggedRecords[i].index # report.flaggedRecords[j].index

\* an element that is no object, a record left out for its missing name
\* alone, and a record of the Catalog that has nothing to flag
C27_Witness ==
  /\ pc = "done"
  /\ Len(rawData) = 3
  /\ \E a, b, c \in DOMAIN rawData :
       \A report \in {buildQualityReport(rawData)} :
         /\ rawData[a].t = "number"
         /\ report.analysed[a].issues # <<>>
         /\ ~report.analysed[b].included
         /\ report.analysed[b].issues = <<>>
         /\ report.analysed[b].validationIssues # <<>>
         /\ report.analysed[c].included
         /\ InCatalog(c)
         /\ Len(report.flaggedRecords) = 2

\* ---------------------------------------------------------------------------
\* the Catalog in its original order: the accepted input records, in input
\* order
CatalogInOrder ==
  /\ \A j, k \in CatalogIndex : j < k => sourceIndex[j] < sourceIndex[k]
  /\ \A k \in CatalogIndex : normalisedGames[k].id.v = assignedIds[sourceIndex[k]]

\* C28: the filtered list is the facet-satisfying part of a starting
\* sequence, which is the ranked search result for the stripped debounced
\* query when that is not empty, and the whole Catalog in its original order
\* when the debounced query is empty or blank (then the list is what the
\* search index, which finds nothing for an empty pattern, could not give).
C28_StartingSequence ==
  pc = "done" =>
    \A text \in StrippedForms(debouncedQuery) :
      LET Wanted(game) == SatisfiesFacets(game, filters)
      IN /\ CatalogInOrder
         /\ text # <<>>
              => /\ searchResults(debouncedQuery) = FuseSearch(text)
                 /\ filteredGames = SelectSeq(FuseSearch(text), Wanted)
         /\ text = <<>>
              => /\ searchResults(debouncedQuery) = normalisedGames
                 /\ filteredGames = SelectSeq(normalisedGames, Wanted)
                 /\ FuseSearch(text) = <<>>

\* the debounced query is one blank and, with no facet selected, the list is
\* the whole Catalog
C28_Witness ==
  /\ pc = "done"
  /\ events > 0
  /\ debouncedQuery = sBlank
  /\ filteredGames = normalisedGames
  /\ Len(filteredGames) = NumGames

\* the debounced query is "g1 " and the list is in ranked order, which is not
\* the order of the Catalog
C28_WitnessRanked ==
  /\ pc = "done"
  /\ events > 0
  /\ debouncedQuery = sG1Pad
  /\ Len(filteredGames) > 1
  /\ filteredGames[1] = normalisedGames[NumGames]
  /\ filteredGames[2] = normalisedGames[1]

\* ---------------------------------------------------------------------------
PageOfUrl(url) == parsePageParam(ParamGet(url, "page"))

\* the page of the query string exists for the query and the facet
\* selections of that same string
PageWithinOwnRange(url) ==
  \A f \in {buildFiltersFromParams(url)} :
    f.page <= Max(1, CeilingOf(Len(FilterGames(f, f.query)), 12))

\* the address bar was given another query string from outside
ExternalNavigation ==
  /\ pc = "done"
  /\ events' = events + 1
  /\ searchParams' # searchParams

\* no input is left to come, the address bar shows url and the filters are
\* the ones url decodes to
NavigatedTo(url) ==
  /\ pc = "done"
  /\ events = MaxEvents
  /\ searchParams = url
  /\ areFiltersEqual(filters, buildFiltersFromParams(url))

ShowsPageOf(url) ==
  /\ filters.page = PageOfUrl(url)
  /\ PageOfUrl(searchParams) = PageOfUrl(url)

\* C29: when the address bar is given a query string whose page p exists for
\* that string's own query and facets, p is the page in force right after
\* the navigation, whatever query the debounce still holds, and the session
\* settles with FilterState.page = p and page p in the address bar.
C29_NavigatedPageKept ==
  /\ [][ ExternalNavigation /\ PageWithinOwnRange(searchParams')
           => /\ filters'.page = PageOfUrl(searchParams')
              /\ CurrentPageOf(filters', debouncedQuery') = PageOfUrl(searchParams') ]_vars
  /\ \A url \in UrlPool :
       PageWithinOwnRange(url) => [](NavigatedTo(url) => <>[]ShowsPageOf(url))

\* ---------------------------------------------------------------------------
\* a step made by one of the user's inputs on the page: it is counted as an
\* event and leaves the address bar alone
UserInput ==
  /\ pc = "done"
  /\ events' = events + 1
  /\ searchParams' = searchParams

\* C30: a user input that changes the query or a facet selection leaves
\* FilterState.page at 1; the steps of the search box, of the search form,
\* of a suggestion and of the reset do so in any case; and a step of
\* handlePageChange leaves the query and every facet selection as they were
\* and the page at 1 or above.
C30_PageResetOnChange ==
  /\ [][ UserInput /\ ~SameSelections(filters', filters)
           => filters'.page = DEFAULT_PAGE ]_vars
  /\ [][ QueryChange \/ handleSearchSubmit \/ handleSuggestionSelect \/ resetFilters
           => filters'.page = DEFAULT_PAGE ]_vars
  /\ [][ handlePageChange
           => SameSelections(filters', filters) /\ filters'.page >= DEFAULT_PAGE ]_vars

\* the page was opened on page 2 and a typed query or a ticked facet value
\* has taken the state back to page 1
C30_Witness ==
  /\ pc = "done"
  /\ events = 1
  /\ searchParams = << <<"page", sTwo>> >>
  /\ filters.page = DEFAULT_PAGE
  /\ ~SameSelections(filters, createDefaultFilters)

\* the page was opened on page 1 with two facets selected and a page link
\* has taken the state to page 2 with the same selections
C30_WitnessPage ==
  /\ pc = "done"
  /\ events = 1
  /\ filters.page = 2
  /\ searchParams = <<>>
  /\ SameSelections(filters, createDefaultFilters)
====
